---- MODULE Spec2Model ----
(***************************************************************************)
(* A model of lib/SSEResponseParser.ts: the generator-based SSE parser     *)
(* states (fieldStart, fieldName, fieldValue, skipLFAfterCR, skipComment,  *)
(* collectUntilChar) and the driver SSEResponseParser (getMessages, close).*)
(*                                                                         *)
(* Bytes are naturals, text is a sequence of code points, a Message is the *)
(* sequence of its own properties <<[k, v], ...>> in Object.keys order.    *)
(* Offsets are 0-based as in the source: chunk[pos] is chunk[pos + 1] here.*)
(***************************************************************************)
EXTENDS Integers, Sequences, FiniteSets, TLC

VARIABLES
    input,          \* the lines the server sends: <<[body, term], ...>>
    iterators,      \* the iterations the consumer obtains from the driver
    off,            \* number of bytes of the stream the reader has handed out
    cancelled,      \* reader.cancel() was called and took effect
    clientClosed,   \* this.clientClosed
    finishedWith,   \* this.finishedWith: "null" or its reason, a FinishReason
    finishedError,  \* this.finishedWith.error ("none" when there is none)
    pc,             \* per iteration: where the getMessages() generator is
    state,          \* per iteration: the parser state and its iterator
    ctx,            \* per iteration: ParserCtx, [message, decoder]
    nextBuf,        \* per iteration: last result of reader.read(), [done, value]
    currentPos,     \* per iteration: currentPos of the inner loop
    closed,         \* per iteration: the local flag closed
    out,            \* per iteration: the Messages yielded to the consumer
    result,         \* per iteration: its completion value, [reason, error]
    raised,         \* per iteration: the error thrown to the consumer's pull
    closePc,        \* close(): "idle", "await" (in cancel), "resolved", "rejected"
    closeResult,    \* what close() resolved to, or the error it rejected with
    closedAt        \* pc of the iterations when close() was called

vars == <<input, iterators, off, cancelled, clientClosed, finishedWith, finishedError, pc,
          state, ctx, nextBuf, currentPos, closed, out, result, raised, closePc,
          closeResult, closedAt>>

----------------------------------------------------------------------------
(* Byte constants and classification                                       *)

COLON == 58
CR == 13
LF == 10
SPACE == 32

\* the field name compared with in fieldValue: 'data'
DATA == <<100, 97, 116, 97>>

notNameChar(ch) == ch = COLON \/ ch = CR \/ ch = LF

lineEndChar(ch) == ch = CR \/ ch = LF

\* the predicate argument of collectUntilChar, passed by name
Predicate(pred, ch) ==
    IF pred = "notNameChar" THEN notNameChar(ch) ELSE lineEndChar(ch)

\* TypedArray.subarray(pos) and subarray(0, end)
subarray(bytes, pos) == SubSeq(bytes, pos + 1, Len(bytes))

\* TypedArray.findIndex(predicate): 0-based index of the first match, or -1
findIndex(bytes, pred) ==
    IF \E i \in 1..Len(bytes) : Predicate(pred, bytes[i])
    THEN (CHOOSE i \in 1..Len(bytes) :
              /\ Predicate(pred, bytes[i])
              /\ \A j \in 1..(i - 1) : ~Predicate(pred, bytes[j])) - 1
    ELSE -1

----------------------------------------------------------------------------
(* TextDecoder (UTF-8, non fatal), for code points up to U+07FF: one and   *)
(* two byte sequences. The decoder state is its pending lead byte, kept as *)
(* a sequence of zero or one byte.                                         *)

REPLACEMENT == 65533

IsLead2(b) == b >= 194 /\ b <= 223

IsCont(b) == b >= 128 /\ b <= 191

\* what the decoder puts out on reading bytes[i]: a lead byte is held back, and
\* the byte before bytes[i] is pending exactly when it is a lead byte
DecodeAt(bytes, i) ==
    LET b == bytes[i]
    IN IF i > 1 /\ IsLead2(bytes[i - 1])
       THEN IF IsCont(b) THEN <<(bytes[i - 1] - 192) * 64 + (b - 128)>>
            ELSE IF b < 128 THEN <<REPLACEMENT, b>>
            ELSE IF IsLead2(b) THEN <<REPLACEMENT>>
            ELSE <<REPLACEMENT, REPLACEMENT>>
       ELSE IF b < 128 THEN <<b>>
            ELSE IF IsLead2(b) THEN <<>>
            ELSE <<REPLACEMENT>>

RECURSIVE Concat(_, _)
Concat(pieces, i) ==
    IF i > Len(pieces) THEN <<>> ELSE pieces[i] \o Concat(pieces, i + 1)

\* the text and the pending byte after the decoder has read all of `bytes`
DecodeAll(bytes) ==
    [text |-> Concat([i \in 1..Len(bytes) |-> DecodeAt(bytes, i)], 1),
     pend |-> IF Len(bytes) > 0 /\ IsLead2(bytes[Len(bytes)])
              THEN <<bytes[Len(bytes)]>> ELSE <<>>]

\* decodeStream without {stream: true}: every fragment is decoded on its own
decodeWithoutStream(pend, bytes) ==
    [text |-> DecodeAll(bytes).text \o (IF DecodeAll(bytes).pend = <<>> THEN <<>> ELSE <<REPLACEMENT>>),
     pend |-> <<>>]

\* decoder.decode(bytes, {stream: true}) with `pend` pending: [text, pend]
decodeStream(pend, bytes) == DecodeAll(pend \o bytes)

\* decoder.decode(): the final flush
decodeFlush(pend) == IF pend = <<>> THEN <<>> ELSE <<REPLACEMENT>>

----------------------------------------------------------------------------
(* Message: a plain object. Property assignment and Object.keys order.     *)

PROTO == <<95, 95, 112, 114, 111, 116, 111, 95, 95>>    \* '__proto__'

IsDigit(c) == c >= 48 /\ c <= 57

RECURSIVE NumericValue(_, _)
NumericValue(name, i) ==
    IF i = 0 THEN 0 ELSE NumericValue(name, i - 1) * 10 + (name[i] - 48)

\* an integer index key: Object.keys lists these first, in ascending order
\* (canonical decimal text below 2^32 - 1; names of up to nine digits here)
IsArrayIndex(name) ==
    /\ Len(name) >= 1
    /\ Len(name) <= 9
    /\ \A i \in 1..Len(name) : IsDigit(name[i])
    /\ (Len(name) = 1 \/ name[1] # 48)

HasKey(message, name) == \E i \in 1..Len(message) : message[i].k = name

\* message[name] || '': the stored text, empty when the property is absent
GetField(message, name) ==
    IF HasKey(message, name)
    THEN (message[CHOOSE i \in 1..Len(message) : message[i].k = name]).v
    ELSE <<>>

\* where a new own property lands in Object.keys order
InsertAt(message, name) ==
    IF IsArrayIndex(name)
    THEN 1 + Cardinality({i \in 1..Len(message) :
                 /\ IsArrayIndex(message[i].k)
                 /\ NumericValue(message[i].k, Len(message[i].k))
                      < NumericValue(name, Len(name))})
    ELSE Len(message) + 1

\* a new own property put at place `at` of the key order
InsertField(message, at, name, value) ==
    SubSeq(message, 1, at - 1) \o <<[k |-> name, v |-> value]>>
        \o SubSeq(message, at, Len(message))

\* message[name] = value
SetField(message, name, value) ==
    IF name = PROTO THEN message    \* the inherited setter ignores a string
    ELSE IF HasKey(message, name)
    THEN [i \in 1..Len(message) |->
             IF message[i].k = name THEN [k |-> name, v |-> value] ELSE message[i]]
    ELSE InsertField(message, InsertAt(message, name), name, value)

----------------------------------------------------------------------------
(* Parser states. A state is a generator function; `state` holds the       *)
(* running iterator: fn (which function), name (the closure variable of    *)
(* fieldValue), nxt (the closure variable nextState of skipLFAfterCR), at  *)
(* (the yield it is suspended at) and its live locals.                     *)
(*   at = "fresh"   : created, not started                                 *)
(*   at = "wait"    : at its first `yield {}`, waiting for {chunk, pos}    *)
(*   at = "emitted" : fieldStart at `yield {message}`                      *)
(*   at = "more"    : at `yield {pos: chunk.byteLength}`                   *)
(* A step (one stateIterator.next({chunk, pos})) gives                     *)
(*   [done, gen, ctx, hasMessage, pos]                                     *)
(* done: the generator returned {nextState, pos} (gen is the new state's   *)
(* fresh iterator); otherwise it yielded {message?, pos?}: hasMessage says *)
(* that the key message is there (its value is ctx.message), pos = -1 that *)
(* the key pos is absent.                                                  *)

NewGen(fn, name, nxt) ==
    [fn |-> fn, name |-> name, nxt |-> nxt, at |-> "fresh",
     pos |-> 0, char |-> 0, buffer |-> <<>>, rem |-> <<>>]

Yielded(gen, c, hasMessage, pos) ==
    [done |-> FALSE, gen |-> gen, ctx |-> c, hasMessage |-> hasMessage, pos |-> pos]

Returned(nextState, c, pos) ==
    [done |-> TRUE, gen |-> nextState, ctx |-> c, hasMessage |-> FALSE, pos |-> pos]

\* skipLFAfterCR(char, nextState): the state to go to after a line end char
skipLFAfterCR(char, nextState) ==
    IF char = LF THEN NewGen(nextState, <<>>, "")
    ELSE NewGen("skipLF", <<>>, nextState)

\* skipLF leaving an LF after CR where it is
skipLFKeepsLF(gen, c, chunk, pos) ==
    IF gen.at = "fresh" THEN Yielded([gen EXCEPT !.at = "wait"], c, FALSE, -1)
    ELSE Returned(NewGen(gen.nxt, <<>>, ""), c, pos)

\* skipLF taking the byte after CR whatever it is
skipLFSkipsAnyByte(gen, c, chunk, pos) ==
    IF gen.at = "fresh" THEN Yielded([gen EXCEPT !.at = "wait"], c, FALSE, -1)
    ELSE Returned(NewGen(gen.nxt, <<>>, ""), c, pos + 1)

\* the generator returned by skipLFAfterCR for CR
skipLF(gen, c, chunk, pos) ==
    IF gen.at = "fresh" THEN Yielded([gen EXCEPT !.at = "wait"], c, FALSE, -1)
    ELSE Returned(NewGen(gen.nxt, <<>>, ""), c,
                  IF chunk[pos + 1] = LF THEN pos + 1 ELSE pos)

\* fieldStart returning the offset of the blank line's terminator, not pos + 1
fieldStartKeepingTerminator(gen, c, chunk, pos) ==
    IF gen.at = "fresh" THEN Yielded([gen EXCEPT !.at = "wait"], c, FALSE, -1)
    ELSE IF gen.at = "wait"
    THEN IF chunk[pos + 1] = COLON THEN Returned(NewGen("skipComment", <<>>, ""), c, pos + 1)
         ELSE IF chunk[pos + 1] = LF \/ chunk[pos + 1] = CR
         THEN Yielded([gen EXCEPT !.at = "emitted", !.pos = pos, !.char = chunk[pos + 1]],
                      c, TRUE, -1)
         ELSE Returned(NewGen("fieldName", <<>>, ""), c, pos)
    ELSE Returned(skipLFAfterCR(gen.char, "fieldStart"),
                  [c EXCEPT !.message = <<>>], gen.pos)

fieldStart(gen, c, chunk, pos) ==
    IF gen.at = "fresh" THEN Yielded([gen EXCEPT !.at = "wait"], c, FALSE, -1)
    ELSE IF gen.at = "wait"
    THEN LET char == chunk[pos + 1]
         IN IF char = COLON THEN Returned(NewGen("skipComment", <<>>, ""), c, pos + 1)
            ELSE IF char = LF \/ char = CR
            THEN Yielded([gen EXCEPT !.at = "emitted", !.pos = pos, !.char = char],
                         c, TRUE, -1)
            ELSE Returned(NewGen("fieldName", <<>>, ""), c, pos)
    ELSE \* resumed after `yield {message: ctx.message}`
         Returned(skipLFAfterCR(gen.char, "fieldStart"),
                  [c EXCEPT !.message = <<>>], gen.pos + 1)

\* the offset skipComment returns on finding a line end at lineEndIndex
CommentEndPos(pos, lineEndIndex) == pos + lineEndIndex

\* the body of the loop of skipComment, given remainingChunk and lineEndIndex
SkipCommentScan(gen, c, remainingChunk, lineEndIndex, pos, byteLength) ==
    IF lineEndIndex >= 0
    THEN Returned(skipLFAfterCR(remainingChunk[lineEndIndex + 1], "fieldStart"),
                  c, CommentEndPos(pos, lineEndIndex))
    ELSE Yielded([gen EXCEPT !.at = "more"], c, FALSE, byteLength)

skipComment(gen, c, chunk, pos) ==
    IF gen.at = "fresh" THEN Yielded([gen EXCEPT !.at = "wait"], c, FALSE, -1)
    ELSE SkipCommentScan(gen, c, subarray(chunk, pos),
                         findIndex(subarray(chunk, pos), "lineEndChar"),
                         pos, Len(chunk))

\* the skipLeadingSpace block of collectUntilChar
StripLeadingSpace(skipLeadingSpace, buffer, bytesToAdd) ==
    IF skipLeadingSpace /\ buffer = <<>> /\ Len(bytesToAdd) > 0 /\ bytesToAdd[1] = SPACE
    THEN subarray(bytesToAdd, 1)
    ELSE bytesToAdd

\* CollectEnd neither flushing nor replacing the decoder
CollectEndKeepingDecoder(buffer, d, endingChar, pos) ==
    [found |-> TRUE, endingChar |-> endingChar, buffer |-> buffer \o d.text,
     decoder |-> d.pend, pos |-> pos + 1, rem |-> <<>>]

\* CollectEnd returning the offset two past the ending char
CollectEndPastNextByte(buffer, d, endingChar, pos) ==
    [found |-> TRUE, endingChar |-> endingChar, buffer |-> buffer \o d.text \o decodeFlush(d.pend),
     decoder |-> <<>>, pos |-> pos + 2, rem |-> <<>>]

\* the end of collectUntilChar once the ending char is found: d is the result
\* of the last streaming decode; the decoder is flushed and replaced
CollectEnd(buffer, d, endingChar, pos) ==
    [found |-> TRUE, endingChar |-> endingChar,
     buffer |-> buffer \o d.text \o decodeFlush(d.pend),
     decoder |-> <<>>, pos |-> pos + 1, rem |-> <<>>]

\* one pass of the loop of collectUntilChar, given remainingChunk and
\* endingIndex. found: the loop ended and [endingChar, buffer, pos] is the
\* return value; otherwise it yields {pos: chunk.byteLength}, and rem are the
\* bytes it adds to the buffer once it is resumed
CollectPass(skipLeadingSpace, buffer, decoder, remainingChunk, endingIndex, pos, byteLength) ==
    IF endingIndex >= 0
    THEN CollectEnd(buffer,
                    decodeStream(decoder,
                        StripLeadingSpace(skipLeadingSpace, buffer,
                                          SubSeq(remainingChunk, 1, endingIndex))),
                    remainingChunk[endingIndex + 1], pos + endingIndex)
    ELSE [found |-> FALSE, endingChar |-> 0, buffer |-> buffer,
          decoder |-> decoder, pos |-> byteLength, rem |-> remainingChunk]

CollectScan(pred, skipLeadingSpace, buffer, decoder, chunk, pos) ==
    CollectPass(skipLeadingSpace, buffer, decoder, subarray(chunk, pos),
                findIndex(subarray(chunk, pos), pred), pos, Len(chunk))

\* collectUntilChar resumed at `yield {pos: chunk.byteLength}`: d is the
\* streaming decode of the bytes left over from the previous chunk
CollectMore(pred, skipLeadingSpace, buffer, d, chunk, pos) ==
    CollectScan(pred, skipLeadingSpace, buffer \o d.text, d.pend, chunk, pos)

\* collectUntilChar resumed with {chunk, pos}: at "wait" it starts with an empty
\* buffer; at "more" it first adds the bytes left over from the previous chunk
collectUntilChar(gen, c, pred, skipLeadingSpace, chunk, pos) ==
    IF gen.at = "wait"
    THEN CollectScan(pred, skipLeadingSpace, <<>>, c.decoder, chunk, pos)
    ELSE CollectMore(pred, skipLeadingSpace, gen.buffer,
                     decodeStream(c.decoder,
                         StripLeadingSpace(skipLeadingSpace, gen.buffer, gen.rem)),
                     chunk, pos)

\* FieldNameEnd storing nothing for a name that ends at a line end
FieldNameEndDropsBareName(gen, c, r) ==
    IF ~r.found
    THEN Yielded([gen EXCEPT !.at = "more", !.buffer = r.buffer, !.rem = r.rem],
                 [c EXCEPT !.decoder = r.decoder], FALSE, r.pos)
    ELSE IF r.endingChar = LF \/ r.endingChar = CR
    THEN Returned(skipLFAfterCR(r.endingChar, "fieldStart"),
                  [c EXCEPT !.decoder = r.decoder], r.pos)
    ELSE Returned(NewGen("fieldValue", r.buffer, ""),
                  [c EXCEPT !.decoder = r.decoder], r.pos)

\* fieldName after collectUntilChar gave r
FieldNameEnd(gen, c, r) ==
    IF ~r.found
    THEN Yielded([gen EXCEPT !.at = "more", !.buffer = r.buffer, !.rem = r.rem],
                 [c EXCEPT !.decoder = r.decoder], FALSE, r.pos)
    ELSE IF r.endingChar = LF \/ r.endingChar = CR
    THEN Returned(skipLFAfterCR(r.endingChar, "fieldStart"),
                  [message |-> SetField(c.message, r.buffer, <<>>),
                   decoder |-> r.decoder], r.pos)
    ELSE Returned(NewGen("fieldValue", r.buffer, ""),
                  [c EXCEPT !.decoder = r.decoder], r.pos)

fieldName(gen, c, chunk, pos) ==
    IF gen.at = "fresh" THEN Yielded([gen EXCEPT !.at = "wait"], c, FALSE, -1)
    ELSE FieldNameEnd(gen, c,
                      collectUntilChar(gen, c, "notNameChar", FALSE, chunk, pos))

\* StoredValue replacing the data gathered so far instead of adding to it
StoredValueReplacing(message, name, buffer) ==
    IF name = DATA THEN buffer \o <<LF>> ELSE buffer

\* StoredValue adding to the stored text whatever the field's name
StoredValueAccumulatingAll(message, name, buffer) ==
    IF name = DATA
    THEN GetField(message, name) \o buffer \o <<LF>>
    ELSE GetField(message, name) \o buffer

\* the value fieldValue stores for fieldName given the collected buffer
StoredValue(message, name, buffer) ==
    IF name = DATA
    THEN GetField(message, name) \o buffer \o <<LF>>
    ELSE buffer

\* fieldValue collecting with the predicate of fieldName
ValuePredicateOfName == "notNameChar"

\* the predicate fieldValue collects with
ValuePredicate == "lineEndChar"

\* fieldValue(fieldName) after collectUntilChar gave r
FieldValueEnd(gen, c, r) ==
    IF ~r.found
    THEN Yielded([gen EXCEPT !.at = "more", !.buffer = r.buffer, !.rem = r.rem],
                 [c EXCEPT !.decoder = r.decoder], FALSE, r.pos)
    ELSE Returned(skipLFAfterCR(r.endingChar, "fieldStart"),
                  [message |-> SetField(c.message, gen.name,
                                        StoredValue(c.message, gen.name, r.buffer)),
                   decoder |-> r.decoder], r.pos)

fieldValue(gen, c, chunk, pos) ==
    IF gen.at = "fresh" THEN Yielded([gen EXCEPT !.at = "wait"], c, FALSE, -1)
    ELSE FieldValueEnd(gen, c,
                       collectUntilChar(gen, c, ValuePredicate, TRUE, chunk, pos))

\* stateIterator.next({chunk, pos})
IteratorNext(gen, c, chunk, pos) ==
    CASE gen.fn = "fieldStart" -> fieldStart(gen, c, chunk, pos)
      [] gen.fn = "fieldName" -> fieldName(gen, c, chunk, pos)
      [] gen.fn = "fieldValue" -> fieldValue(gen, c, chunk, pos)
      [] gen.fn = "skipLF" -> skipLF(gen, c, chunk, pos)
      [] gen.fn = "skipComment" -> skipComment(gen, c, chunk, pos)

----------------------------------------------------------------------------
(* The driver: SSEResponseParser.getMessages() and close()                 *)

\* the context and first state getMessages() starts with
InitialCtx == [message |-> <<>>, decoder |-> <<>>]

InitialState == NewGen("fieldStart", <<>>, "")

\* one pass of the body of the inner loop `while (currentPos < chunk.byteLength)`,
\* up to its `yield result.message`: [state, ctx, currentPos, yielded, message].
\* (A result that carries a message carries no pos, so taking result.pos before
\* the yield instead of after it changes nothing.)
\* DriverTake without the test Object.keys(result.message).length > 0
DriverTakeAnyMessage(c, pos, step) ==
    [state |-> step.gen,
     ctx |-> step.ctx,
     currentPos |-> IF step.done \/ step.pos # -1 THEN step.pos ELSE pos,
     yielded |-> ~step.done /\ step.hasMessage,
     message |-> c.message]

\* what the loop body does with `step`, the result of stateIterator.next()
DriverTake(c, pos, step) ==
    [state |-> step.gen,
     ctx |-> step.ctx,
     currentPos |-> IF step.done \/ step.pos # -1 THEN step.pos ELSE pos,
     yielded |-> ~step.done /\ step.hasMessage /\ Len(c.message) > 0,
     message |-> c.message]

DriverStep(gen, c, chunk, pos) == DriverTake(c, pos, IteratorNext(gen, c, chunk, pos))

\* the loop state after one pass: what was yielded is added to out
FeedTake(ps, d) ==
    [state |-> d.state, ctx |-> d.ctx, currentPos |-> d.currentPos,
     out |-> IF d.yielded THEN Append(ps.out, d.message) ELSE ps.out]

\* the inner loop over one chunk from offset pos, collecting what it yields:
\* [state, ctx, currentPos, out]
RECURSIVE FeedChunk(_, _)
FeedChunk(ps, chunk) ==
    IF ps.currentPos >= Len(chunk) THEN ps
    ELSE FeedChunk(FeedTake(ps, DriverStep(ps.state, ps.ctx, chunk, ps.currentPos)),
                   chunk)

\* the outer loop over a sequence of chunks read from the source
RECURSIVE FeedAll(_, _, _)
FeedAll(ps, chunks, i) ==
    IF i > Len(chunks) THEN ps
    ELSE FeedAll(FeedChunk([ps EXCEPT !.currentPos = 0], chunks[i]), chunks, i + 1)

\* the Messages an iteration yields when the source hands out `chunks` and ends
Messages(chunks) ==
    FeedAll([state |-> InitialState, ctx |-> InitialCtx, currentPos |-> 0,
             out |-> <<>>], chunks, 1).out

----------------------------------------------------------------------------
(* The byte source: the server sends the lines of `input`, the reader      *)
(* hands the bytes out in chunks cut anywhere.                             *)

\* bounds of the model: lines per input (before the closing blank line) and
\* bytes per chunk (a chunk may also hold all the bytes that are left)
MaxLines == 3

MaxChunk == 3

Line(body, term) == [body |-> body, term |-> term]

SeqsUpTo(S, n) == UNION {[1..k -> S] : k \in 0..n}

RECURSIVE Flatten(_, _)
Flatten(lines, i) ==
    IF i > Len(lines) THEN <<>>
    ELSE lines[i].body \o lines[i].term \o Flatten(lines, i + 1)

Stream == Flatten(input, 1)

----------------------------------------------------------------------------
(* Actions                                                                 *)

\* the iterations obtained from the driver: each getMessages() call makes one
Iterations == {1, 2}

\* the errors the byte source may fail with
Errors == {"E1", "E2"}

NoResult == [reason |-> "none", error |-> "none"]

\* the generator is not running: not pulled yet, awaiting reader.read(), at
\* `yield result.message`, or completed (by itself, or by the consumer's
\* return())
Suspended(i) == pc[i] \in {"start", "read", "yield", "done", "returned"}

\* one thread of control: an iteration runs only while the others are suspended
OthersSuspended(i) == \A j \in Iterations \ {i} : Suspended(j)

\* Begin with the context kept on the driver: an iteration begun after another
\* was left goes on with that one's context
BeginWithAbandonedContext(i) ==
    /\ i \in iterators
    /\ pc[i] = "start"
    /\ OthersSuspended(i)
    /\ finishedWith = "null"
    /\ state' = [state EXCEPT ![i] = InitialState]
    /\ ctx' = [ctx EXCEPT ![i] = IF \E j \in Iterations : pc[j] = "returned"
                                 THEN ctx[CHOOSE j \in Iterations : pc[j] = "returned"]
                                 ELSE InitialCtx]
    /\ closed' = [closed EXCEPT ![i] = FALSE]
    /\ pc' = [pc EXCEPT ![i] = "loop"]
    /\ UNCHANGED <<input, iterators, off, cancelled, clientClosed, finishedWith, finishedError,
                   nextBuf, currentPos, out, result, raised, closePc, closeResult,
                   closedAt>>

\* Begin with the loop reading before it tests its condition
BeginReadingFirst(i) ==
    /\ i \in iterators
    /\ pc[i] = "start"
    /\ OthersSuspended(i)
    /\ finishedWith = "null"
    /\ state' = [state EXCEPT ![i] = InitialState]
    /\ ctx' = [ctx EXCEPT ![i] = InitialCtx]
    /\ closed' = [closed EXCEPT ![i] = FALSE]
    /\ pc' = [pc EXCEPT ![i] = "read"]
    /\ UNCHANGED <<input, iterators, off, cancelled, clientClosed, finishedWith, finishedError,
                   nextBuf, currentPos, out, result, raised, closePc, closeResult,
                   closedAt>>

\* first messages.next(): the body of getMessages() starts
Begin(i) ==
    /\ i \in iterators
    /\ pc[i] = "start"
    /\ OthersSuspended(i)
    /\ finishedWith = "null"
    /\ state' = [state EXCEPT ![i] = InitialState]
    /\ ctx' = [ctx EXCEPT ![i] = InitialCtx]
    /\ closed' = [closed EXCEPT ![i] = FALSE]
    /\ pc' = [pc EXCEPT ![i] = "loop"]
    /\ UNCHANGED <<input, iterators, off, cancelled, clientClosed, finishedWith, finishedError,
                   nextBuf, currentPos, out, result, raised, closePc, closeResult,
                   closedAt>>

\* BeginFinished running the body although the session has finished
BeginFinishedAnew(i) ==
    /\ i \in iterators
    /\ pc[i] = "start"
    /\ OthersSuspended(i)
    /\ finishedWith # "null"
    /\ state' = [state EXCEPT ![i] = InitialState]
    /\ ctx' = [ctx EXCEPT ![i] = InitialCtx]
    /\ closed' = [closed EXCEPT ![i] = FALSE]
    /\ pc' = [pc EXCEPT ![i] = "loop"]
    /\ UNCHANGED <<input, iterators, off, cancelled, clientClosed, finishedWith, finishedError,
                   nextBuf, currentPos, out, result, raised, closePc, closeResult,
                   closedAt>>

\* first messages.next() on a finished session: `return this.finishedWith`
BeginFinished(i) ==
    /\ i \in iterators
    /\ pc[i] = "start"
    /\ OthersSuspended(i)
    /\ finishedWith # "null"
    /\ result' = [result EXCEPT ![i] = [reason |-> finishedWith, error |-> finishedError]]
    /\ pc' = [pc EXCEPT ![i] = "done"]
    /\ UNCHANGED <<input, iterators, off, cancelled, clientClosed, finishedWith, finishedError,
                   state, ctx, nextBuf, currentPos, closed, out, raised, closePc,
                   closeResult, closedAt>>

\* IssueRead with the loop condition not looking at this.clientClosed
IssueReadThoughClosed(i) ==
    /\ pc[i] = "loop"
    /\ ~closed[i]
    /\ pc' = [pc EXCEPT ![i] = "read"]
    /\ UNCHANGED <<input, iterators, off, cancelled, clientClosed, finishedWith, finishedError,
                   state, ctx, nextBuf, currentPos, closed, out, result, raised,
                   closePc, closeResult, closedAt>>

\* `while (!closed && !this.clientClosed)` holds: reader.read() is called
IssueRead(i) ==
    /\ pc[i] = "loop"
    /\ ~closed[i] /\ ~clientClosed
    /\ pc' = [pc EXCEPT ![i] = "read"]
    /\ UNCHANGED <<input, iterators, off, cancelled, clientClosed, finishedWith, finishedError,
                   state, ctx, nextBuf, currentPos, closed, out, result, raised,
                   closePc, closeResult, closedAt>>

\* the reason of the Finish Result with the end of the stream tested first
FinishReasonServerFirst(isClosed, isClientClosed) ==
    IF isClosed THEN "SERVER_CLOSED" ELSE "CLIENT_CLOSED"

\* the reason of the Finish Result computed after the loop
FinishReason(isClosed, isClientClosed) ==
    IF isClientClosed THEN "CLIENT_CLOSED" ELSE "SERVER_CLOSED"

\* the loop is left: the Finish Result is stored and returned
Finish(i) ==
    /\ pc[i] = "loop"
    /\ closed[i] \/ clientClosed
    /\ finishedWith' = FinishReason(closed[i], clientClosed)
    /\ finishedError' = "none"
    /\ result' = [result EXCEPT ![i] = [reason |-> FinishReason(closed[i], clientClosed),
                                        error |-> "none"]]
    /\ pc' = [pc EXCEPT ![i] = "done"]
    /\ UNCHANGED <<input, iterators, off, cancelled, clientClosed, state, ctx, nextBuf,
                   currentPos, closed, out, raised, closePc, closeResult, closedAt>>

\* the sizes of the chunk read() may hand out when `rest` bytes are left: up to
\* MaxChunk bytes (0: an empty chunk), or all that is left
ChunkSizes(rest) == {n \in 0..rest : n <= MaxChunk \/ n = rest}

\* read() resolves with the next n bytes of the stream
ReadChunk(i) ==
    /\ pc[i] = "read"
    /\ OthersSuspended(i)
    /\ ~cancelled
    /\ \E n \in ChunkSizes(Len(Stream) - off) :
          /\ nextBuf' = [nextBuf EXCEPT ![i] =
                            [done |-> FALSE, value |-> SubSeq(Stream, off + 1, off + n)]]
          /\ off' = off + n
    /\ currentPos' = [currentPos EXCEPT ![i] = 0]
    /\ pc' = [pc EXCEPT ![i] = "feed"]
    /\ UNCHANGED <<input, iterators, cancelled, clientClosed, finishedWith, finishedError, state,
                   ctx, closed, out, result, raised, closePc, closeResult, closedAt>>

\* ReadDone of a source that does not end its reads on cancellation
ReadDoneAtStreamEndOnly(i) ==
    /\ pc[i] = "read"
    /\ OthersSuspended(i)
    /\ off = Len(Stream)
    /\ nextBuf' = [nextBuf EXCEPT ![i] = [done |-> TRUE, value |-> <<>>]]
    /\ currentPos' = [currentPos EXCEPT ![i] = 0]
    /\ pc' = [pc EXCEPT ![i] = "feed"]
    /\ UNCHANGED <<input, iterators, off, cancelled, clientClosed, finishedWith, finishedError,
                   state, ctx, closed, out, result, raised, closePc, closeResult,
                   closedAt>>

\* read() resolves with {done: true}: the server ended the stream after its
\* last byte, or the reader was cancelled
ReadDone(i) ==
    /\ pc[i] = "read"
    /\ OthersSuspended(i)
    /\ cancelled \/ off = Len(Stream)
    /\ nextBuf' = [nextBuf EXCEPT ![i] = [done |-> TRUE, value |-> <<>>]]
    /\ currentPos' = [currentPos EXCEPT ![i] = 0]
    /\ pc' = [pc EXCEPT ![i] = "feed"]
    /\ UNCHANGED <<input, iterators, off, cancelled, clientClosed, finishedWith, finishedError,
                   state, ctx, closed, out, result, raised, closePc, closeResult,
                   closedAt>>

\* ReadFails with the error swallowed: the session ends as if the server closed
ReadFailsSwallowed(i) ==
    /\ pc[i] = "read"
    /\ OthersSuspended(i)
    /\ \E error \in Errors :
          /\ finishedWith' = "SERVER_CLOSED"
          /\ finishedError' = "none"
          /\ result' = [result EXCEPT ![i] = [reason |-> "SERVER_CLOSED", error |-> "none"]]
          /\ raised' = raised
    /\ pc' = [pc EXCEPT ![i] = "done"]
    /\ UNCHANGED <<input, iterators, off, cancelled, clientClosed, state, ctx, nextBuf,
                   currentPos, closed, out, closePc, closeResult, closedAt>>

\* read() rejects: the catch block stores {reason: THROWN, error} and rethrows,
\* the generator completes by throwing to the pending pull
ReadFails(i) ==
    /\ pc[i] = "read"
    /\ OthersSuspended(i)
    /\ \E error \in Errors :
          /\ finishedWith' = "THROWN"
          /\ finishedError' = error
          /\ result' = result
          /\ raised' = [raised EXCEPT ![i] = error]
    /\ pc' = [pc EXCEPT ![i] = "done"]
    /\ UNCHANGED <<input, iterators, off, cancelled, clientClosed, state, ctx, nextBuf,
                   currentPos, closed, out, closePc, closeResult, closedAt>>

\* FeedStep going on after a Message without handing it to the consumer first
FeedStepWithoutSuspending(i) ==
    /\ pc[i] = "feed"
    /\ currentPos[i] < Len(nextBuf[i].value)
    /\ \E d \in {DriverStep(state[i], ctx[i], nextBuf[i].value, currentPos[i])} :
          /\ state' = [state EXCEPT ![i] = d.state]
          /\ ctx' = [ctx EXCEPT ![i] = d.ctx]
          /\ currentPos' = [currentPos EXCEPT ![i] = d.currentPos]
          /\ out' = [out EXCEPT ![i] = IF d.yielded THEN Append(@, d.message) ELSE @]
          /\ pc' = pc
    /\ UNCHANGED <<input, iterators, off, cancelled, clientClosed, finishedWith, finishedError,
                   nextBuf, closed, result, raised, closePc, closeResult, closedAt>>

\* one stateIterator.next({chunk, pos: currentPos}) and what the loop does with it
FeedStep(i) ==
    /\ pc[i] = "feed"
    /\ currentPos[i] < Len(nextBuf[i].value)
    /\ \E d \in {DriverStep(state[i], ctx[i], nextBuf[i].value, currentPos[i])} :
          /\ state' = [state EXCEPT ![i] = d.state]
          /\ ctx' = [ctx EXCEPT ![i] = d.ctx]
          /\ currentPos' = [currentPos EXCEPT ![i] = d.currentPos]
          /\ out' = [out EXCEPT ![i] = IF d.yielded THEN Append(@, d.message) ELSE @]
          /\ pc' = [pc EXCEPT ![i] = IF d.yielded THEN "yield" ELSE "feed"]
    /\ UNCHANGED <<input, iterators, off, cancelled, clientClosed, finishedWith, finishedError,
                   nextBuf, closed, result, raised, closePc, closeResult, closedAt>>

\* Resume leaving the chunk when close() has been requested
ResumeUnlessClosed(i) ==
    /\ pc[i] = "yield"
    /\ OthersSuspended(i)
    /\ pc' = [pc EXCEPT ![i] = IF clientClosed THEN "loop" ELSE "feed"]
    /\ UNCHANGED <<input, iterators, off, cancelled, clientClosed, finishedWith, finishedError,
                   state, ctx, nextBuf, currentPos, closed, out, result, raised,
                   closePc, closeResult, closedAt>>

\* the consumer pulls again: the generator resumes after `yield result.message`
Resume(i) ==
    /\ pc[i] = "yield"
    /\ OthersSuspended(i)
    /\ pc' = [pc EXCEPT ![i] = "feed"]
    /\ UNCHANGED <<input, iterators, off, cancelled, clientClosed, finishedWith, finishedError,
                   state, ctx, nextBuf, currentPos, closed, out, result, raised,
                   closePc, closeResult, closedAt>>

\* EndChunk handing the record left open to the consumer when the stream ends
EndChunkFlushingOpenRecord(i) ==
    /\ pc[i] = "feed"
    /\ currentPos[i] >= Len(nextBuf[i].value)
    /\ closed' = [closed EXCEPT ![i] = nextBuf[i].done]
    /\ out' = [out EXCEPT ![i] = IF nextBuf[i].done /\ Len(ctx[i].message) > 0
                                 THEN Append(@, ctx[i].message) ELSE @]
    /\ pc' = [pc EXCEPT ![i] = "loop"]
    /\ UNCHANGED <<input, iterators, off, cancelled, clientClosed, finishedWith, finishedError,
                   state, ctx, nextBuf, currentPos, result, raised, closePc,
                   closeResult, closedAt>>

\* EndChunk taking a chunk of no bytes for the end of the stream
EndChunkClosingOnEmpty(i) ==
    /\ pc[i] = "feed"
    /\ currentPos[i] >= Len(nextBuf[i].value)
    /\ closed' = [closed EXCEPT ![i] = nextBuf[i].done \/ nextBuf[i].value = <<>>]
    /\ out' = out
    /\ pc' = [pc EXCEPT ![i] = "loop"]
    /\ UNCHANGED <<input, iterators, off, cancelled, clientClosed, finishedWith, finishedError,
                   state, ctx, nextBuf, currentPos, result, raised, closePc,
                   closeResult, closedAt>>

\* the chunk is used up (or was empty or absent): closed = nextBuf.done || false
EndChunk(i) ==
    /\ pc[i] = "feed"
    /\ currentPos[i] >= Len(nextBuf[i].value)
    /\ closed' = [closed EXCEPT ![i] = nextBuf[i].done]
    /\ out' = out
    /\ pc' = [pc EXCEPT ![i] = "loop"]
    /\ UNCHANGED <<input, iterators, off, cancelled, clientClosed, finishedWith, finishedError,
                   state, ctx, nextBuf, currentPos, result, raised, closePc,
                   closeResult, closedAt>>

\* the consumer leaves the sequence (break or return in `for await`, or
\* messages.return()): a generator that was not started or is at
\* `yield result.message` completes there; no catch block runs and the
\* statements after the loop are not reached
Abandon(i) ==
    /\ i \in iterators
    /\ pc[i] \in {"start", "yield"}
    /\ OthersSuspended(i)
    /\ finishedWith' = finishedWith
    /\ finishedError' = finishedError
    /\ result' = result
    /\ pc' = [pc EXCEPT ![i] = "returned"]
    /\ UNCHANGED <<input, iterators, off, cancelled, clientClosed, state, ctx, nextBuf,
                   currentPos, closed, out, raised, closePc, closeResult, closedAt>>

\* every generator is suspended: the consumer's code may run
AllSuspended == \A i \in Iterations : Suspended(i)

\* close() on a session that has not finished: the flag is set and cancel() is
\* called; close() then waits for it. It can only run while the iterations are
\* suspended (not started, waiting for read(), at a yielded Message, or done).
CloseCall ==
    /\ closePc = "idle"
    /\ AllSuspended
    /\ finishedWith = "null"
    /\ clientClosed' = TRUE
    /\ cancelled' = TRUE
    /\ closePc' = "await"
    /\ closedAt' = pc
    /\ UNCHANGED <<input, iterators, off, finishedWith, finishedError, pc, state, ctx, nextBuf,
                   currentPos, closed, out, result, raised, closeResult>>

\* CloseFinished setting the flag and cancelling as on an unfinished session
CloseFinishedCancelling ==
    /\ closePc = "idle"
    /\ AllSuspended
    /\ finishedWith # "null"
    /\ clientClosed' = TRUE
    /\ cancelled' = TRUE
    /\ closePc' = "resolved"
    /\ closeResult' = finishedWith
    /\ closedAt' = pc
    /\ UNCHANGED <<input, iterators, off, finishedWith, finishedError, pc, state, ctx, nextBuf,
                   currentPos, closed, out, result, raised>>

\* close() on a finished session: nothing but returning the cached result
CloseFinished ==
    /\ closePc = "idle"
    /\ AllSuspended
    /\ finishedWith # "null"
    /\ clientClosed' = clientClosed
    /\ cancelled' = cancelled
    /\ closePc' = "resolved"
    /\ closeResult' = finishedWith
    /\ closedAt' = pc
    /\ UNCHANGED <<input, iterators, off, finishedWith, finishedError, pc, state, ctx, nextBuf,
                   currentPos, closed, out, result, raised>>

\* cancel() has completed: close() returns
CloseReturn ==
    /\ closePc = "await"
    /\ AllSuspended
    /\ closeResult' = IF finishedWith = "null" THEN "CLIENT_CLOSED" ELSE finishedWith
    /\ closePc' = "resolved"
    /\ UNCHANGED <<input, iterators, off, cancelled, clientClosed, finishedWith, finishedError,
                   pc, state, ctx, nextBuf, currentPos, closed, out, result, raised,
                   closedAt>>

\* cancel() rejects: close() rejects with that error (nothing in close() catches
\* it); the source may or may not have stopped
CancelFails ==
    /\ closePc = "await"
    /\ AllSuspended
    /\ \E error \in Errors : closeResult' = error
    /\ cancelled' \in BOOLEAN
    /\ closePc' = "rejected"
    /\ UNCHANGED <<input, iterators, off, clientClosed, finishedWith, finishedError, pc, state,
                   ctx, nextBuf, currentPos, closed, out, result, raised, closedAt>>

\* the steps of iteration i
IterationNext(i) ==
    \/ Begin(i)
    \/ BeginFinished(i)
    \/ IssueRead(i)
    \/ Finish(i)
    \/ ReadChunk(i)
    \/ ReadDone(i)
    \/ ReadFails(i)
    \/ FeedStep(i)
    \/ Resume(i)
    \/ EndChunk(i)
    \/ Abandon(i)

Next ==
    \/ \E i \in Iterations : IterationNext(i)
    \/ CloseCall
    \/ CloseFinished
    \/ CloseReturn
    \/ CancelFails

\* the state after `new SSEResponseParser(reader)` with getMessages() called
\* for each iteration: the server is about to send one of the inputs of S to a
\* consumer with one iteration, or one of the inputs of T to a consumer with
\* all of them
InitWith(S, T) ==
    /\ \/ input \in S /\ iterators = {1}
       \/ input \in T /\ iterators = Iterations
    /\ off = 0
    /\ cancelled = FALSE
    /\ clientClosed = FALSE
    /\ finishedWith = "null"
    /\ finishedError = "none"
    /\ pc = [i \in Iterations |-> "start"]
    /\ state = [i \in Iterations |-> InitialState]
    /\ ctx = [i \in Iterations |-> InitialCtx]
    /\ nextBuf = [i \in Iterations |-> [done |-> FALSE, value |-> <<>>]]
    /\ currentPos = [i \in Iterations |-> 0]
    /\ closed = [i \in Iterations |-> FALSE]
    /\ out = [i \in Iterations |-> <<>>]
    /\ result = [i \in Iterations |-> NoResult]
    /\ raised = [i \in Iterations |-> "none"]
    /\ closePc = "idle"
    /\ closeResult = "none"
    /\ closedAt = [i \in Iterations |-> "none"]

----------------------------------------------------------------------------
(* Inputs                                                                  *)

ID == <<105, 100>>              \* 'id'

Field(name, value) == name \o <<COLON>> \o value

\* comment lines, field lines and blank lines, ended by LF
GeneralLines ==
    {Line(b, <<LF>>) : b \in {<<>>, <<COLON, 99>>, Field(ID, <<49>>),
                               Field(DATA, <<SPACE, 120>>)}}

GeneralInputs == {ls \o <<Line(<<>>, <<LF>>)>> : ls \in SeqsUpTo(GeneralLines, MaxLines)}

\* the inputs sent to a consumer with several iterations: no record, one record
SharedInputs ==
    {<<Line(<<>>, <<LF>>)>>, <<Line(Field(ID, <<49>>), <<LF>>), Line(<<>>, <<LF>>)>>}

Init == InitWith(GeneralInputs, SharedInputs)

Spec == Init /\ [][Next]_vars

----------------------------------------------------------------------------
(* What the wire grammar says a sequence of lines means: the reference the *)
(* claims compare the parser with. A Message is here an ordered mapping in *)
(* insertion order.                                                        *)

\* the text of a whole token
RefText(bytes) == DecodeAll(bytes).text \o decodeFlush(DecodeAll(bytes).pend)

HasColon(body) == \E i \in 1..Len(body) : body[i] = COLON

FirstColon(body) == CHOOSE i \in 1..Len(body) :
                        body[i] = COLON /\ \A j \in 1..(i - 1) : body[j] # COLON

IsBlank(line) == line.body = <<>>

IsComment(line) == Len(line.body) > 0 /\ line.body[1] = COLON

RefName(body) ==
    RefText(IF HasColon(body) THEN SubSeq(body, 1, FirstColon(body) - 1) ELSE body)

\* the bytes after the first ':' (none for a line without ':')
RawValue(body) ==
    IF HasColon(body) THEN SubSeq(body, FirstColon(body) + 1, Len(body)) ELSE <<>>

\* exactly one leading space is not part of the value
DeclaredValue(raw) ==
    RefText(IF Len(raw) > 0 /\ raw[1] = SPACE THEN SubSeq(raw, 2, Len(raw)) ELSE raw)

RefGet(m, name) ==
    IF \E i \in 1..Len(m) : m[i].k = name
    THEN (m[CHOOSE i \in 1..Len(m) : m[i].k = name]).v
    ELSE <<>>

RefSet(m, name, value) ==
    IF \E i \in 1..Len(m) : m[i].k = name
    THEN [i \in 1..Len(m) |-> IF m[i].k = name THEN [k |-> name, v |-> value] ELSE m[i]]
    ELSE Append(m, [k |-> name, v |-> value])

\* the in-progress Message after a field line
RefField(m, body) ==
    IF HasColon(body) /\ RefName(body) = DATA
    THEN RefSet(m, DATA, RefGet(m, DATA) \o DeclaredValue(RawValue(body)) \o <<LF>>)
    ELSE RefSet(m, RefName(body), DeclaredValue(RawValue(body)))

\* the Messages of lines[i..]: a blank line dispatches a Message that has
\* fields, a comment line changes nothing, a record left open is dropped
RECURSIVE RefRun(_, _, _, _)
RefRun(lines, i, m, outs) ==
    IF i > Len(lines) THEN outs
    ELSE IF IsBlank(lines[i])
    THEN RefRun(lines, i + 1, <<>>, IF m = <<>> THEN outs ELSE Append(outs, m))
    ELSE IF IsComment(lines[i]) THEN RefRun(lines, i + 1, m, outs)
    ELSE RefRun(lines, i + 1, RefField(m, lines[i].body), outs)

RefMessages(lines) == RefRun(lines, 1, <<>>, <<>>)

\* iteration 1 is the only one that was begun
Solo == \A i \in Iterations \ {1} : pc[i] = "start"

\* the only iteration has run to the end of the stream
ServerClosed == Solo /\ pc[1] = "done" /\ result[1].reason = "SERVER_CLOSED"

----------------------------------------------------------------------------
(* One record of one field line, the value made of spaces and 'v'          *)

MaxValue == 3

SpaceValues == SeqsUpTo({SPACE, 118}, MaxValue)

ValueInputs ==
    {<<Line(Field(n, v), <<LF>>), Line(<<>>, <<LF>>)>> : n \in {ID, DATA}, v \in SpaceValues}

InitValue == InitWith(ValueInputs, SharedInputs)

SpecValue == InitValue /\ [][Next]_vars

\* C1: chunk-boundary invariance: however the stream is cut into chunks, the
\* Messages yielded are those yielded when it arrives as one chunk
ChunkInvariance == ServerClosed => out[1] = Messages(<<Stream>>)

\* C4: of a field value exactly one leading space is removed if it starts
\* with a space, and no second one, whatever the chunking
OneLeadingSpaceStripped ==
    ServerClosed =>
        /\ Len(out[1]) = 1
        /\ Len(out[1][1]) = 1
        /\ out[1][1][1].v = DeclaredValue(RawValue(input[1].body))
                           \o (IF RefName(input[1].body) = DATA THEN <<LF>> ELSE <<>>)

----------------------------------------------------------------------------
(* Records, comments and blank lines; close() at any suspension point      *)

NotComment(line) == ~IsComment(line)

\* C2: comment lines never affect the output: the Messages are those of the
\* stream with every comment line (and its terminator) deleted
CommentsIgnored ==
    ServerClosed => out[1] = Messages(<<Flatten(SelectSeq(input, NotComment), 1)>>)

NoEmptyMessage == \A it \in Iterations : \A i \in 1..Len(out[it]) : Len(out[it][i]) > 0

\* C10 witness: a stream that starts with a blank line, then a comment line
\* followed by two blank lines, ran to its end and yielded nothing
BlankLinesYieldNothing ==
    /\ ServerClosed
    /\ Len(input) = 4
    /\ IsBlank(input[1]) /\ IsComment(input[2]) /\ IsBlank(input[3])
    /\ out[1] = <<>>

----------------------------------------------------------------------------
(* Field lines and blank lines ended by LF, CR or CRLF                     *)

Terminators == {<<LF>>, <<CR>>, <<CR, LF>>}

LineEndLines ==
    {Line(b, t) : b \in {Field(ID, <<49>>), Field(DATA, <<100>>), <<>>}, t \in Terminators}

LineEndInputs ==
    {ls \o <<Line(<<>>, t)>> : ls \in SeqsUpTo(LineEndLines, MaxLines - 1), t \in Terminators}

InitLineEnd == InitWith(LineEndInputs, SharedInputs)

SpecLineEnd == InitLineEnd /\ [][Next]_vars

\* the same lines, each ended by LF
WithLF(lines) == [i \in 1..Len(lines) |-> Line(lines[i].body, <<LF>>)]

\* no line ended by a bare CR is followed by a blank line ended by LF: those
\* two bytes are one CRLF terminator
NoCRBeforeLF(lines) ==
    \A i \in 1..(Len(lines) - 1) :
        ~(lines[i].term = <<CR>> /\ IsBlank(lines[i + 1]) /\ lines[i + 1].term = <<LF>>)

\* C5: line-ending equivalence: with each terminator replaced independently by
\* LF, CR or CRLF the Messages are those of the LF-terminated lines (a CR
\* followed by LF being one terminator)
LineEndingsEquivalent ==
    (ServerClosed /\ NoCRBeforeLF(input))
        => out[1] = Messages(<<Flatten(WithLF(input), 1)>>)

\* C5 witness: a record with a CRLF and a CR terminator was yielded
MixedTerminatorsYielded ==
    /\ ServerClosed
    /\ NoCRBeforeLF(input)
    /\ \E i \in 1..Len(input) : input[i].term = <<CR, LF>>
    /\ \E i \in 1..Len(input) : input[i].term = <<CR>>
    /\ out[1] # <<>>

----------------------------------------------------------------------------
(* Records of data lines, values with ':' inside, field lines without ':'  *)

RecordLines ==
    {Line(b, <<LF>>) : b \in {Field(DATA, <<97>>), Field(DATA, <<SPACE, 98, COLON, 99>>),
                               Field(ID, <<SPACE, 49>>), ID, <<>>}}

RecordInputs == {ls \o <<Line(<<>>, <<LF>>)>> : ls \in SeqsUpTo(RecordLines, MaxLines)}

InitRecord == InitWith(RecordInputs, SharedInputs)

SpecRecord == InitRecord /\ [][Next]_vars

\* the data of each Message (empty text where there is none)
DataValues(ms) == [i \in 1..Len(ms) |-> RefGet(ms[i], DATA)]

\* C6: data accumulation: the data of each Message is the concatenation, in
\* line order, of the values of the data lines of its record, each followed by
\* a newline, starting from empty text at every record
DataAccumulates == ServerClosed => DataValues(out[1]) = DataValues(RefMessages(input))

\* C6 witness: a Message whose data is 'a\nb:c\n', gathered from two lines
TwoDataLinesYielded ==
    /\ ServerClosed
    /\ \E i \in 1..Len(out[1]) : RefGet(out[1][i], DATA) = <<97, LF, 98, COLON, 99, LF>>

HasColonInValue(lines) ==
    \E i \in 1..Len(lines) : HasColon(RawValue(lines[i].body))

BareNameIsEmptyField ==
    ServerClosed =>
        /\ Len(out[1]) = Len(RefMessages(input))
        /\ \A i \in 1..Len(out[1]) :
              \A j \in 1..Len(RefMessages(input)[i]) :
                  RefMessages(input)[i][j].v = <<>>
                      => /\ HasKey(out[1][i], RefMessages(input)[i][j].k)
                         /\ GetField(out[1][i], RefMessages(input)[i][j].k) = <<>>

\* C9 witness: a Message that holds id as empty text was yielded
BareNameYielded ==
    /\ ServerClosed
    /\ \E i \in 1..Len(out[1]) : \E j \in 1..Len(out[1][i]) : out[1][i][j] = [k |-> ID, v |-> <<>>]

----------------------------------------------------------------------------
(* Field names of all kinds                                                *)

NameLines ==
    {Line(b, <<LF>>) : b \in {Field(<<50>>, <<97>>), Field(<<49>>, <<98>>),
                               Field(ID, <<99>>), Field(PROTO, <<100>>), <<>>}}

NameInputs == {ls \o <<Line(<<>>, <<LF>>)>> : ls \in SeqsUpTo(NameLines, MaxLines)}

InitName == InitWith(NameInputs, SharedInputs)

SpecName == InitName /\ [][Next]_vars

\* C8: the keys of each Message are the field names of its record in
\* declaration order, each with the value declared for it, whatever the names
FieldsInDeclarationOrder == ServerClosed => out[1] = RefMessages(input)

----------------------------------------------------------------------------
(* Streams that end while a record is open                                 *)

OpenLines ==
    {Line(b, <<LF>>) : b \in {Field(ID, <<49>>), Field(DATA, <<SPACE, 120>>), <<>>}}

\* the last line is a field line, ended by LF or cut off by the end of the stream
OpenInputs ==
    {ls \o <<Line(b, t)>> : ls \in SeqsUpTo(OpenLines, MaxLines - 1),
                             b \in {Field(ID, <<50>>), Field(DATA, <<121>>)},
                             t \in {<<LF>>, <<>>}}

InitOpen == InitWith(OpenInputs, SharedInputs)

SpecOpen == InitOpen /\ [][Next]_vars

\* C11: when the source reports the end of the stream while a record is open,
\* that record is not yielded (the Messages are those of the records closed
\* by a blank line) and the iteration completes with SERVER_CLOSED
OpenRecordDropped ==
    (Solo /\ pc[1] = "done" /\ ~clientClosed /\ raised[1] = "none")
        => /\ result[1].reason = "SERVER_CLOSED"
           /\ out[1] = RefMessages(input)

\* C11 witness: the stream ended with fields parsed into an open record, after
\* an earlier record was yielded
OpenRecordAtEnd ==
    /\ ServerClosed
    /\ input \in OpenInputs
    /\ Len(ctx[1].message) > 0
    /\ Len(out[1]) = 1

----------------------------------------------------------------------------
(* The session: Finish Results, close(), failures of the byte source       *)

\* C12: a session that ends without an error ends with CLIENT_CLOSED if the
\* client-closed flag is set at that moment, with SERVER_CLOSED otherwise, and
\* with SERVER_CLOSED only after read() reported the end of the stream and no
\* close() was requested
FinishReasonByFlag ==
    [][\A i \in Iterations :
          (pc[i] = "loop" /\ pc'[i] = "done")
             => /\ finishedWith' = (IF clientClosed THEN "CLIENT_CLOSED" ELSE "SERVER_CLOSED")
                /\ result'[i] = [reason |-> finishedWith', error |-> "none"]
                /\ finishedWith' = "SERVER_CLOSED"
                      => closed[i] /\ nextBuf[i].done /\ ~clientClosed]_vars

\* C12 witness: close() was called while read() was pending on a stream that
\* had no byte left; read() reported the end and the result is CLIENT_CLOSED
ClientClosedAtStreamEnd ==
    /\ clientClosed
    /\ closedAt[1] = "read"
    /\ off = Len(Stream)
    /\ pc[1] = "done"
    /\ closed[1]
    /\ result[1].reason = "CLIENT_CLOSED"

\* C13: once the cached Finish Result is set it never changes, under any
\* interleaving of iterations begun on the driver, pulls and close() calls
FinishResultSetOnce ==
    [][finishedWith # "null"
          => finishedWith' = finishedWith /\ finishedError' = finishedError]_vars

\* C14: the first pull on an iteration begun after the session has finished
\* completes it with the cached Finish Result, yields nothing, throws nothing
\* and calls neither read() nor cancel(); a completed iteration stays completed
CachedResultOnBegin ==
    [][\A i \in Iterations :
          /\ (pc[i] = "start" /\ pc'[i] \notin {"start", "returned"} /\ finishedWith # "null")
                => /\ pc'[i] = "done"
                   /\ result'[i] = [reason |-> finishedWith, error |-> finishedError]
                   /\ raised'[i] = "none"
                   /\ out'[i] = <<>>
                   /\ off' = off /\ cancelled' = cancelled
                   /\ finishedWith' = finishedWith /\ finishedError' = finishedError
          /\ pc[i] = "done" => pc'[i] = "done"]_vars

\* C14 witness: an iteration begun after a read() failure of another one
\* completed with the cached THROWN result, without throwing
BegunAfterThrown ==
    /\ pc[2] = "done"
    /\ raised[1] = "E1"
    /\ result[2] = [reason |-> "THROWN", error |-> "E1"]
    /\ raised[2] = "none"
    /\ nextBuf[2] = [done |-> FALSE, value |-> <<>>]

\* C15: close() on a finished session sets no flag, cancels nothing and
\* leaves the cached Finish Result as it is
CloseAfterFinishIsNoOp ==
    [][(closePc = "idle" /\ closePc' # "idle" /\ finishedWith # "null")
          => /\ clientClosed' = clientClosed
             /\ cancelled' = cancelled
             /\ finishedWith' = finishedWith /\ finishedError' = finishedError
             /\ closeResult' = finishedWith]_vars

\* C15 witness: close() was called after the server closed the stream
ClosedAfterServerClosed ==
    /\ closePc = "resolved"
    /\ closedAt[1] = "done"
    /\ ~clientClosed /\ ~cancelled
    /\ finishedWith = "SERVER_CLOSED"
    /\ closeResult = "SERVER_CLOSED"

\* C16: when read() fails, the Finish Result is THROWN with that error, the
\* same error is thrown to the pending pull, and the iteration is completed:
\* it calls read() no more
ReadFailureIsThrown ==
    [][\A i \in Iterations :
          /\ (pc[i] = "read" /\ pc'[i] = "done")
                => /\ finishedWith' = "THROWN"
                   /\ finishedError' \in Errors
                   /\ raised'[i] = finishedError'
                   /\ result'[i] = NoResult
          /\ raised[i] # "none" => pc'[i] = "done" /\ raised'[i] = raised[i]]_vars

\* C16 witness: read() failed after a Message had been yielded
ThrownAfterMessage ==
    /\ Solo
    /\ pc[1] = "done"
    /\ raised[1] = "E2"
    /\ finishedWith = "THROWN" /\ finishedError = "E2"
    /\ Len(out[1]) >= 1

\* C17: whenever cancel() fails, the Finish Result of the session is THROWN
\* with that error
CancelFailureIsThrown ==
    (closePc = "rejected" /\ finishedWith # "null")
        => finishedWith = "THROWN" /\ finishedError = closeResult

\* C18: an iteration never finishes (and never leaves the inner loop) while
\* bytes of the chunk it is processing are left, unless the consumer leaves it
ClosedOnlyAtChunkEnd ==
    [][\A i \in Iterations :
          /\ (pc'[i] = "done" /\ pc[i] # "done")
                => currentPos[i] >= Len(nextBuf[i].value)
          /\ (pc[i] \in {"feed", "yield"} /\ currentPos[i] < Len(nextBuf[i].value))
                => pc'[i] \in {"feed", "yield", "returned"}]_vars

\* C18 witness: close() was called at a yielded Message in the middle of a
\* chunk; the rest of the chunk, the start of the next field line, was fed
\* before the iteration finished
ClosedMidChunkFinished ==
    /\ clientClosed
    /\ closedAt[1] = "yield"
    /\ pc[1] = "done"
    /\ Len(nextBuf[1].value) > 0
    /\ currentPos[1] = Len(nextBuf[1].value)
    /\ state[1].fn \in {"fieldName", "fieldValue"}

----------------------------------------------------------------------------
(* Progress: the consumer keeps pulling, the generators run when they can, *)
(* and a pending read() is resolved when the source has a chunk or the end *)
(* of the stream to report (it need never fail)                            *)

\* the steps of iteration i that the consumer's pulls and the job queue drive
IterationStep(i) ==
    \/ Begin(i)
    \/ BeginFinished(i)
    \/ IssueRead(i)
    \/ Finish(i)
    \/ FeedStep(i)
    \/ Resume(i)
    \/ EndChunk(i)

Fairness ==
    \A i \in Iterations : WF_vars(IterationStep(i) \/ ReadChunk(i) \/ ReadDone(i))

\* two records in a row; a record and a comment
LiveInputs ==
    {<<Line(Field(ID, <<49>>), <<LF>>), Line(<<>>, <<LF>>),
       Line(Field(ID, <<50>>), <<LF>>), Line(<<>>, <<LF>>)>>,
     <<Line(<<COLON, 99>>, <<LF>>), Line(Field(DATA, <<SPACE, 120>>), <<LF>>),
       Line(<<>>, <<LF>>)>>}

\* several iterations share a stream of one blank line
InitLive == InitWith(LiveInputs, {<<Line(<<>>, <<LF>>)>>})

SpecLive == InitLive /\ [][Next]_vars /\ Fairness

\* C19: every close() requested on an unfinished session is eventually
\* followed by each iteration in progress completing, with a Finish Result or
\* the error of a failed read(), unless the consumer stops pulling and leaves it
CloseLeadsToFinish ==
    \A i \in Iterations :
        (clientClosed /\ pc[i] # "start") ~> (pc[i] = "done" \/ pc[i] = "returned")

\* C19 witness: close() was called while read() was pending with bytes left
\* in the stream; the iteration completed with CLIENT_CLOSED
FinishedAfterCloseDuringRead ==
    /\ clientClosed
    /\ closedAt[1] = "read"
    /\ off < Len(Stream)
    /\ pc[1] = "done"
    /\ result[1].reason = "CLIENT_CLOSED"

----------------------------------------------------------------------------
(* Order and promptness of the Messages                                    *)

\* the longest prefix of the lines of `input` that lies within the first n
\* bytes of the stream
LinesWithin(n) ==
    SubSeq(input, 1,
           CHOOSE k \in 0..Len(input) :
               /\ Len(Flatten(SubSeq(input, 1, k), 1)) <= n
               /\ \A j \in (k + 1)..Len(input) : Len(Flatten(SubSeq(input, 1, j), 1)) > n)

\* the number of bytes of the stream iteration 1 has looked at: those before
\* currentPos, and the line end at currentPos while fieldStart is suspended at
\* its `yield {message: ctx.message}` (it returns pos + 1 when resumed)
Examined ==
    off - Len(nextBuf[1].value) + currentPos[1]
        + (IF state[1].fn = "fieldStart" /\ state[1].at = "emitted" THEN 1 ELSE 0)

\* C20: the Messages yielded so far are, in order, those of the records whose
\* closing blank line lies in the bytes looked at so far (none is held back,
\* none comes early); a Message is yielded one at a time, the generator then
\* waits for the next pull, and until then it consumes and reads nothing
MessagesInOrderOnePerPull ==
    /\ [](Solo => out[1] = RefMessages(LinesWithin(Examined)))
    /\ [][\A i \in Iterations :
             /\ Len(out'[i]) <= Len(out[i]) + 1
             /\ out'[i] # out[i] => pc'[i] = "yield"
             /\ pc[i] = "yield"
                   => /\ pc'[i] \in {"yield", "feed", "returned"}
                      /\ out'[i] = out[i]
                      /\ currentPos'[i] = currentPos[i]
                      /\ nextBuf'[i] = nextBuf[i]]_vars

\* C20 witness: the whole stream, two records, came as one chunk; the first
\* Message is with the consumer and no byte of the second record was consumed
FirstOfTwoYielded ==
    /\ Solo
    /\ pc[1] = "yield"
    /\ nextBuf[1].value = Stream
    /\ Len(RefMessages(input)) = 2
    /\ Len(out[1]) = 1
    /\ ctx[1].message = out[1][1]

----------------------------------------------------------------------------
(* Field names and values with two-byte code points                        *)

EACUTE == <<195, 169>>              \* U+00E9 in UTF-8

\* the last line kind has a value cut off after its lead byte
Utf8Lines ==
    {Line(b, <<LF>>) : b \in {Field(EACUTE, EACUTE), Field(ID, <<SPACE>> \o EACUTE),
                               Field(ID, <<EACUTE[1]>>), <<>>}}

Utf8Inputs == {ls \o <<Line(<<>>, <<LF>>)>> : ls \in SeqsUpTo(Utf8Lines, MaxLines - 1)}

InitUtf8 == InitWith(Utf8Inputs, SharedInputs)

SpecUtf8 == InitUtf8 /\ [][Next]_vars

\* C21: a code point of a field name or value whose bytes come in different
\* chunks is decoded as when they come in one chunk: the Messages are those
\* of the tokens decoded whole
SplitCodePointDecodedWhole == ServerClosed => out[1] = RefMessages(input)

\* C21 witness: the lead byte of a code point went through the streaming
\* decoder with one chunk and is pending; its second byte came with the next
LeadBytePendingAcrossChunks ==
    /\ Solo
    /\ ctx[1].decoder = <<EACUTE[1]>>
    /\ state[1].rem = <<EACUTE[2]>>
    /\ state[1].buffer = <<>>

\* C26: when the scan of a field name or field value begins, the streaming
\* decoder holds no pending bytes
NoPendingBytesAtTokenStart ==
    \A i \in Iterations :
        (state[i].fn \in {"fieldName", "fieldValue"} /\ state[i].at \in {"fresh", "wait"})
            => ctx[i].decoder = <<>>

\* C26 witness: a value that ended inside a code point was flushed to U+FFFD,
\* and the scan of the next field name has begun
TokenBegunAfterCutCodePoint ==
    /\ state[1].fn = "fieldName"
    /\ state[1].at = "wait"
    /\ GetField(ctx[1].message, ID) = <<REPLACEMENT>>

----------------------------------------------------------------------------
(* Comment, field and blank lines ended by LF, CR or CRLF: the offsets     *)

COMMENT == <<COLON, 99>>            \* ":c"

ScanLines ==
    {Line(b, t) : b \in {COMMENT, Field(ID, <<49>>), <<>>}, t \in Terminators}

ScanInputs == {ls \o <<Line(<<>>, <<LF>>)>> : ls \in SeqsUpTo(ScanLines, MaxLines - 1)}

InitScan == InitWith(ScanInputs, SharedInputs)

SpecScan == InitScan /\ [][Next]_vars

\* the driver's next pass over the chunk of iteration i, which is at `feed`
\* with currentPos < chunk.byteLength
NextPass(i) == DriverStep(state[i], ctx[i], nextBuf[i].value, currentPos[i])

InChunk(i) == pc[i] = "feed" /\ currentPos[i] < Len(nextBuf[i].value)

\* C22: when skipComment finds the comment's terminator, the offset it returns
\* is one past the terminator: the byte before the returned offset is the
\* line end char, which is then never offered to fieldStart
CommentConsumedThroughTerminator ==
    \A i \in Iterations :
        (InChunk(i) /\ state[i].fn = "skipComment" /\ NextPass(i).state.fn # "skipComment")
            => /\ NextPass(i).currentPos > 0
               /\ lineEndChar(nextBuf[i].value[NextPass(i).currentPos])

\* C23: skipLF looks at exactly the byte it is offered: an LF is consumed, any
\* other byte is left where it is for the state that follows, and nothing else
\* changes; so too when that byte is the first of a new chunk
SkipLFTakesOnlyLF ==
    \A i \in Iterations :
        (InChunk(i) /\ state[i].fn = "skipLF" /\ state[i].at = "wait")
            => /\ NextPass(i).state = NewGen(state[i].nxt, <<>>, "")
               /\ NextPass(i).currentPos
                     = currentPos[i] + (IF nextBuf[i].value[currentPos[i] + 1] = LF THEN 1 ELSE 0)
               /\ NextPass(i).ctx = ctx[i]
               /\ ~NextPass(i).yielded

\* C23 witness: the first line ends with CR LF, a chunk ended between the two,
\* and the LF that began the next chunk has been consumed
LFConsumedAtChunkStart ==
    /\ Solo
    /\ input[1].term = <<CR, LF>>
    /\ off - Len(nextBuf[1].value) = Len(input[1].body) + 1
    /\ pc[1] = "feed"
    /\ currentPos[1] = 1
    /\ state[1] = NewGen("fieldStart", <<>>, "")

\* how many passes a state can make without consuming a byte, at most
Rank(gen) ==
    CASE gen.fn = "skipComment" -> IF gen.at = "fresh" THEN 9 ELSE 8
      [] gen.fn = "skipLF" -> IF gen.at = "fresh" THEN 7 ELSE 6
      [] gen.fn = "fieldStart" -> IF gen.at = "fresh" THEN 5 ELSE IF gen.at = "wait" THEN 4 ELSE 3
      [] gen.fn \in {"fieldName", "fieldValue"} -> IF gen.at = "fresh" THEN 2 ELSE 1

\* C29: feeding a chunk terminates: every pass of the driver over a chunk
\* either consumes at least one byte or leaves the offset and moves down a
\* finite chain of states, so no run of passes or yields consumes nothing
EveryPassConsumesOrDescends ==
    \A i \in Iterations :
        InChunk(i)
            => \/ NextPass(i).currentPos > currentPos[i]
               \/ /\ NextPass(i).currentPos = currentPos[i]
                  /\ Rank(NextPass(i).state) < Rank(state[i])

\* C29 witness: a comment's terminator was left unconsumed, skipLF left it
\* too, and fieldStart is about to take it: three states at one offset
ThreeStatesAtOneOffset ==
    /\ InChunk(1)
    /\ state[1].fn = "fieldStart"
    /\ state[1].at = "wait"
    /\ nextBuf[1].value[currentPos[1] + 1] = CR
    /\ currentPos[1] > 0
    /\ nextBuf[1].value[currentPos[1]] = COMMENT[2]

\* C30: the offset a state is offered is within the chunk, and the offset the
\* driver goes on with is neither before it nor past the end of the chunk
OffsetsWithinChunk ==
    \A i \in Iterations :
        /\ pc[i] \in {"feed", "yield"}
              => (0 <= currentPos[i] /\ currentPos[i] <= Len(nextBuf[i].value))
        /\ InChunk(i)
              => /\ currentPos[i] <= NextPass(i).currentPos
                 /\ NextPass(i).currentPos <= Len(nextBuf[i].value)

\* C30 witness: a field value's terminator was the last byte of a chunk that
\* did not begin with the line: the offset returned is the chunk's length
ReturnedOffsetIsChunkLength ==
    /\ Solo
    /\ pc[1] = "feed"
    /\ Len(nextBuf[1].value) > 0
    /\ currentPos[1] = Len(nextBuf[1].value)
    /\ nextBuf[1].value[1] # ID[1]
    /\ state[1].fn \in {"fieldStart", "skipLF"}
    /\ state[1].at = "fresh"
    /\ HasKey(ctx[1].message, ID)

----------------------------------------------------------------------------
(* Records that name a field twice                                         *)

FieldLines ==
    {Line(b, <<LF>>) : b \in {Field(ID, <<49>>), Field(ID, <<50>>), Field(DATA, <<97>>),
                               DATA, <<>>}}

FieldInputs == {ls \o <<Line(<<>>, <<LF>>)>> : ls \in SeqsUpTo(FieldLines, MaxLines - 1)}

InitField == InitWith(FieldInputs, SharedInputs)

SpecField == InitField /\ [][Next]_vars

\* the id of each Message (empty text where there is none)
IdValues(ms) == [i \in 1..Len(ms) |-> RefGet(ms[i], ID)]

\* C24: a field other than data holds the value of the last line of the
\* record that names it: a later line replaces the value of an earlier one,
\* nothing is concatenated and no newline is added
LaterValueReplaces == ServerClosed => IdValues(out[1]) = IdValues(RefMessages(input))

\* C24 witness: id was declared as 1 and then as 2, and the Message holds 2
SecondIdYielded ==
    /\ ServerClosed
    /\ input[1].body = Field(ID, <<49>>)
    /\ input[2].body = Field(ID, <<50>>)
    /\ Len(out[1]) = 1
    /\ GetField(out[1][1], ID) = <<50>>

\* C25: within a record no line discards or shortens the data gathered from
\* the data lines before it, a data line without ':' included: until the
\* record is dispatched the data only grows
DataNeverShortened ==
    \A i \in Iterations :
        (InChunk(i) /\ ~(state[i].fn = "fieldStart" /\ state[i].at = "emitted"))
            => /\ Len(GetField(ctx[i].message, DATA))
                     <= Len(GetField(NextPass(i).ctx.message, DATA))
               /\ SubSeq(GetField(NextPass(i).ctx.message, DATA), 1,
                         Len(GetField(ctx[i].message, DATA)))
                     = GetField(ctx[i].message, DATA)

----------------------------------------------------------------------------
(* Chunks of no bytes                                                      *)

\* read() of iteration i has resolved with a chunk of no bytes that is not
\* the end of the stream
EmptyChunk(i) == nextBuf[i] = [done |-> FALSE, value |-> <<>>]

\* C27: a chunk of no bytes is skipped: from read() resolving with it to the
\* next test of the loop, the parser state, the Message in progress and the
\* decoder stay as they are, nothing is yielded, and the loop is not left
EmptyChunkSkipped ==
    [][\A i \in Iterations :
          /\ (pc[i] = "read" /\ pc'[i] = "feed" /\ EmptyChunk(i)')
                => (state'[i] = state[i] /\ ctx'[i] = ctx[i] /\ out'[i] = out[i])
          /\ (pc[i] = "feed" /\ EmptyChunk(i) /\ pc'[i] # "feed")
                => /\ state'[i] = state[i] /\ ctx'[i] = ctx[i] /\ out'[i] = out[i]
                   /\ pc'[i] = "loop"
                   /\ ~closed'[i]]_vars

\* C27 witness: a chunk of no bytes came inside a value, while the decoder
\* held the lead byte of a code point, and the loop is at its test again
EmptyChunkInsideCodePoint ==
    /\ Solo
    /\ pc[1] = "loop"
    /\ EmptyChunk(1)
    /\ state[1].fn = "fieldValue"
    /\ ctx[1].decoder = <<EACUTE[1]>>

----------------------------------------------------------------------------
(* The compiled parser, dist/SSEResponseParser.js                          *)
(*                                                                         *)
(* Its getMessages() is that of lib statement for statement; its states    *)
(* have the loops written out where lib calls collectUntilChar; its        *)
(* close() has no return statement. The states below take and give the     *)
(* same records as those of lib above.                                     *)

distFieldStart(gen, c, chunk, pos) ==
    IF gen.at = "fresh" THEN Yielded([gen EXCEPT !.at = "wait"], c, FALSE, -1)
    ELSE IF gen.at = "wait"
    THEN CASE chunk[pos + 1] = COLON -> Returned(NewGen("skipComment", <<>>, ""), c, pos + 1)
           [] chunk[pos + 1] \in {LF, CR} ->
                 Yielded([gen EXCEPT !.at = "emitted", !.pos = pos, !.char = chunk[pos + 1]],
                         c, TRUE, -1)
           [] OTHER -> Returned(NewGen("fieldName", <<>>, ""), c, pos)
    ELSE Returned(skipLFAfterCR(gen.char, "fieldStart"),
                  [c EXCEPT !.message = <<>>], gen.pos + 1)

\* after the loop of fieldName: the name is flushed, pos is past nameEndChar
distFieldNameEnd(c, nameText, nameEndChar, pos) ==
    IF nameEndChar = LF \/ nameEndChar = CR
    THEN Returned(skipLFAfterCR(nameEndChar, "fieldStart"),
                  [message |-> SetField(c.message, nameText, <<>>), decoder |-> <<>>], pos)
    ELSE Returned(NewGen("fieldValue", nameText, ""), [c EXCEPT !.decoder = <<>>], pos)

\* one turn of the loop of fieldName: the name and the decoder as they are at
\* its top, remainingChunk and nameEndIndex as it computes them
distFieldNameTurn(gen, c, nameText, decoder, remainingChunk, nameEndIndex, pos, byteLength) ==
    IF nameEndIndex >= 0
    THEN distFieldNameEnd(c,
             nameText
                \o decodeStream(decoder, SubSeq(remainingChunk, 1, nameEndIndex)).text
                \o decodeFlush(decodeStream(decoder, SubSeq(remainingChunk, 1, nameEndIndex)).pend),
             remainingChunk[nameEndIndex + 1], pos + nameEndIndex + 1)
    ELSE Yielded([gen EXCEPT !.at = "more", !.buffer = nameText, !.rem = remainingChunk],
                 [c EXCEPT !.decoder = decoder], FALSE, byteLength)

distFieldNameLoop(gen, c, nameText, decoder, chunk, pos) ==
    distFieldNameTurn(gen, c, nameText, decoder, subarray(chunk, pos),
                      findIndex(subarray(chunk, pos), "notNameChar"), pos, Len(chunk))

distFieldName(gen, c, chunk, pos) ==
    IF gen.at = "fresh" THEN Yielded([gen EXCEPT !.at = "wait"], c, FALSE, -1)
    ELSE IF gen.at = "wait" THEN distFieldNameLoop(gen, c, <<>>, c.decoder, chunk, pos)
    ELSE distFieldNameLoop(gen, c, gen.buffer \o decodeStream(c.decoder, gen.rem).text,
                           decodeStream(c.decoder, gen.rem).pend, chunk, pos)

\* the `Skip leading space` statement of fieldValue
distSkipLeadingSpace(valueText, valueChunk) ==
    IF valueText = <<>> /\ Len(valueChunk) > 0 /\ valueChunk[1] = SPACE
    THEN subarray(valueChunk, 1)
    ELSE valueChunk

\* after the loop of fieldValue(fieldName): the value is flushed
distFieldValueEnd(c, nameText, valueText, valueEndChar, pos) ==
    Returned(skipLFAfterCR(valueEndChar, "fieldStart"),
             [message |-> SetField(c.message, nameText,
                              IF nameText = DATA
                              THEN GetField(c.message, nameText) \o valueText \o <<LF>>
                              ELSE valueText),
              decoder |-> <<>>], pos)

\* the end of a turn that found valueEndChar: d is the streaming decode of valueChunk
distFieldValueFound(c, nameText, valueText, d, valueEndChar, pos) ==
    distFieldValueEnd(c, nameText, valueText \o d.text \o decodeFlush(d.pend),
                      valueEndChar, pos)

distFieldValueTurn(gen, c, valueText, decoder, remainingChunk, valueEndIndex, pos, byteLength) ==
    IF valueEndIndex >= 0
    THEN distFieldValueFound(c, gen.name, valueText,
             decodeStream(decoder,
                 distSkipLeadingSpace(valueText, SubSeq(remainingChunk, 1, valueEndIndex))),
             remainingChunk[valueEndIndex + 1], pos + valueEndIndex + 1)
    ELSE Yielded([gen EXCEPT !.at = "more", !.buffer = valueText, !.rem = remainingChunk],
                 [c EXCEPT !.decoder = decoder], FALSE, byteLength)

distFieldValueLoop(gen, c, valueText, decoder, chunk, pos) ==
    distFieldValueTurn(gen, c, valueText, decoder, subarray(chunk, pos),
                       findIndex(subarray(chunk, pos), "lineEndChar"), pos, Len(chunk))

\* fieldValue resumed at its inner yield: d is the streaming decode of the
\* bytes left over from the previous chunk
distFieldValueMore(gen, c, d, chunk, pos) ==
    distFieldValueLoop(gen, c, gen.buffer \o d.text, d.pend, chunk, pos)

distFieldValue(gen, c, chunk, pos) ==
    IF gen.at = "fresh" THEN Yielded([gen EXCEPT !.at = "wait"], c, FALSE, -1)
    ELSE IF gen.at = "wait" THEN distFieldValueLoop(gen, c, <<>>, c.decoder, chunk, pos)
    ELSE distFieldValueMore(gen, c,
             decodeStream(c.decoder, distSkipLeadingSpace(gen.buffer, gen.rem)), chunk, pos)

distSkipLF(gen, c, chunk, pos) ==
    IF gen.at = "fresh" THEN Yielded([gen EXCEPT !.at = "wait"], c, FALSE, -1)
    ELSE Returned(NewGen(gen.nxt, <<>>, ""), c, IF chunk[pos + 1] = LF THEN pos + 1 ELSE pos)

distSkipCommentTurn(gen, c, remainingChunk, lineEndIndex, pos, byteLength) ==
    IF lineEndIndex >= 0
    THEN Returned(skipLFAfterCR(remainingChunk[lineEndIndex + 1], "fieldStart"),
                  c, pos + lineEndIndex)
    ELSE Yielded([gen EXCEPT !.at = "more"], c, FALSE, byteLength)

distSkipComment(gen, c, chunk, pos) ==
    IF gen.at = "fresh" THEN Yielded([gen EXCEPT !.at = "wait"], c, FALSE, -1)
    ELSE distSkipCommentTurn(gen, c, subarray(chunk, pos),
                             findIndex(subarray(chunk, pos), "lineEndChar"), pos, Len(chunk))

distIteratorNext(gen, c, chunk, pos) ==
    CASE gen.fn = "fieldStart" -> distFieldStart(gen, c, chunk, pos)
      [] gen.fn = "fieldName" -> distFieldName(gen, c, chunk, pos)
      [] gen.fn = "fieldValue" -> distFieldValue(gen, c, chunk, pos)
      [] gen.fn = "skipLF" -> distSkipLF(gen, c, chunk, pos)
      [] gen.fn = "skipComment" -> distSkipComment(gen, c, chunk, pos)

\* the body of the inner loop of dist's getMessages() applied to `step`
distDriverTake(c, pos, step) ==
    [state |-> step.gen,
     ctx |-> step.ctx,
     currentPos |-> IF step.done THEN step.pos ELSE IF step.pos # -1 THEN step.pos ELSE pos,
     yielded |-> ~step.done /\ step.hasMessage /\ Len(c.message) > 0,
     message |-> c.message]

\* the pass dist makes from the state iteration i of lib is in
distNextPass(i) ==
    distDriverTake(ctx[i], currentPos[i],
                   distIteratorNext(state[i], ctx[i], nextBuf[i].value, currentPos[i]))

\* the reason dist's getMessages() finishes with when nothing was thrown
distFinishReason(isClosed, isClientClosed) ==
    IF isClientClosed THEN "CLIENT_CLOSED" ELSE "SERVER_CLOSED"

\* what dist's close() resolves to: the function ends without a return
\* statement, whatever finishedWith is
distCloseValue(cached) == "undefined"

\* C28: dist/SSEResponseParser.js does what lib/SSEResponseParser.ts does:
\* from every state the two make the same pass over the chunk (so they yield
\* the same Messages for every chunk sequence), they finish with the same
\* reason, and close() resolves to the same value in both
DistEquivalentToLib ==
    /\ \A i \in Iterations : InChunk(i) => distNextPass(i) = NextPass(i)
    /\ \A a \in BOOLEAN, b \in BOOLEAN : distFinishReason(a, b) = FinishReason(a, b)
    /\ closePc = "resolved" => closeResult = distCloseValue(finishedWith)

----------------------------------------------------------------------------
(* Reads after close()                                                     *)

\* C31: once this.clientClosed is set no iteration calls read() again, and an
\* iteration that is first pulled after close() completes with CLIENT_CLOSED
\* without having called read()
NoReadOnceClientClosed ==
    /\ [][\A i \in Iterations : (clientClosed /\ pc'[i] = "read") => pc[i] = "read"]_vars
    /\ [](\A i \in Iterations :
             (clientClosed /\ closedAt[i] = "start" /\ pc[i] = "done")
                => /\ result[i].reason = "CLIENT_CLOSED"
                   /\ nextBuf[i] = [done |-> FALSE, value |-> <<>>])

\* C31, as the code has it: once this.clientClosed is set no iteration calls
\* read() again, and an iteration that is first pulled after close() completes
\* without having called read(): with CLIENT_CLOSED, or with the cached
\* THROWN result when the read() of another iteration failed in between
NoReadOnceClientClosedCachedFirst ==
    /\ [][\A i \in Iterations : (clientClosed /\ pc'[i] = "read") => pc[i] = "read"]_vars
    /\ [](\A i \in Iterations :
             (clientClosed /\ closedAt[i] = "start" /\ pc[i] = "done")
                => /\ nextBuf[i] = [done |-> FALSE, value |-> <<>>]
                   /\ \/ result[i].reason = "CLIENT_CLOSED"
                      \/ /\ result[i].reason = "THROWN"
                         /\ \E j \in Iterations \ {i} : raised[j] = result[i].error)

\* C31 witness: close() was called before the first pull, and the iteration
\* then completed with CLIENT_CLOSED while the source had handed out nothing
FirstPullAfterCloseFinished ==
    /\ clientClosed
    /\ closedAt[1] = "start"
    /\ pc[1] = "done"
    /\ result[1].reason = "CLIENT_CLOSED"
    /\ off = 0

----------------------------------------------------------------------------
(* The value of close() and the Finish Result                              *)

\* C32: when close() has resolved and the session has finished, the cached
\* Finish Result has the reason that close() returned
CloseResultIsFinishResult ==
    (closePc = "resolved" /\ finishedWith # "null") => closeResult = finishedWith

----------------------------------------------------------------------------
(* An iteration the consumer leaves, and the one begun after it            *)

\* a record with the field id, then a record with the field a, both without ':'
AbandonInputs ==
    {<<Line(ID, <<LF>>), Line(<<>>, <<LF>>), Line(<<97>>, <<LF>>), Line(<<>>, <<LF>>)>>}

InitAbandon == InitWith(AbandonInputs, AbandonInputs)

SpecAbandon == InitAbandon /\ [][Next]_vars

\* iteration i has parsed the id line: all of the name went to i
ParsedId(i) == Len(out[i]) > 0 /\ HasKey(out[i][1], ID)

\* C33: leaving an iteration records no Finish Result; an iteration begun on
\* the driver starts at fieldStart with an empty Message and a new decoder and
\* reads on from where the source is, so that the id parsed by an iteration
\* that was left is in no Message, yielded or in progress, of another one
AbandonedIterationLeavesNoTrace ==
    /\ [][\A i \in Iterations :
             /\ (pc'[i] = "returned" /\ pc[i] # "returned")
                   => /\ finishedWith' = finishedWith /\ finishedError' = finishedError
                      /\ result'[i] = NoResult /\ raised'[i] = "none"
             /\ (pc[i] = "start" /\ pc'[i] = "loop")
                   => /\ state'[i] = InitialState /\ ctx'[i] = InitialCtx
                      /\ off' = off]_vars
    /\ [](\A i \in Iterations : \A j \in Iterations \ {i} :
             (pc[i] = "returned" /\ ParsedId(i))
                => /\ ~HasKey(ctx[j].message, ID)
                   /\ \A k \in 1..Len(out[j]) : ~HasKey(out[j][k], ID))

\* C33 witness: iteration 1 was left at the Message of the first record; the
\* iteration begun then read the rest of the stream, yielded the second record
\* and completed with SERVER_CLOSED
SecondIterationAfterAbandon ==
    /\ pc[1] = "returned" /\ ParsedId(1) /\ Len(out[1]) = 1
    /\ pc[2] = "done" /\ result[2].reason = "SERVER_CLOSED"
    /\ Len(out[2]) = 1
    /\ out[2][1] = <<[k |-> <<97>>, v |-> <<>>]>>
    /\ finishedWith = "SERVER_CLOSED"

====
